---- MODULE Spec2Model ----
(***************************************************************************)
(* A model of src/main.py: the census-tract / food-access pipeline.        *)
(*                                                                         *)
(* Tables are sequences of rows, a row is a record of its columns.         *)
(* A missing value (pandas NaN / None) is the value NaN below; every       *)
(* present value of the modelled columns is a natural number.  A float     *)
(* quotient is kept exactly, as a pair <<n, d>>: d > 0 is the finite value *)
(* n/d, <<1, 0>> is +inf and <<0, 0>> is NaN, which is what IEEE division  *)
(* of non-negative numbers gives.  Comparing a quotient of two integers    *)
(* below 2^47 with the double 0.33 agrees with the exact comparison        *)
(* 100 * n >= 33 * d, so the model compares exactly.                       *)
(***************************************************************************)
EXTENDS Integers, Sequences, FiniteSets

VARIABLES
    shp_file,     \* the rows of the shapefile (input)
    csv_file,     \* the rows of the food-access CSV (input)
    state_data,   \* main's merged table
    pc,           \* index into main of the statement to run next
    status,       \* "running", "failed" (unhandled exception) or "done"
    stdout,       \* the values printed
    files,        \* the image files written, in the order written
    county,       \* the dissolved table drawn in county_population_map.png
    ratio_data,   \* the dissolved table with ratios drawn in county_food_access.png
    axes,         \* the four axes of county_food_access.png as saved
    food_access,  \* the mid layer of low_access.png as saved
    low_access    \* the highlight layer of low_access.png as saved

vars == <<shp_file, csv_file, state_data, pc, status, stdout, files,
          county, ratio_data, axes, food_access, low_access>>

----------------------------------------------------------------------------
(* Values *)

NaN == 0 - 1

isnull(x) == x = NaN

notnull(x) == ~isnull(x)

NaNRatio == <<0, 0>>

InfRatio == <<1, 0>>

\* a / b on float columns: NaN propagates, x/0 is inf for x > 0 and NaN for 0/0
Div(a, b) ==
    IF isnull(a) \/ isnull(b) THEN NaNRatio
    ELSE IF b = 0 THEN (IF a = 0 THEN NaNRatio ELSE InfRatio)
    ELSE <<a, b>>

\* r >= pct/100 on floats: False for NaN, True for inf
RatioGE(r, pct) ==
    IF r[2] = 0 THEN r[1] > 0
    ELSE 100 * r[1] >= pct * r[2]

\* x >= t on a float column: False for NaN
CountGE(x, t) == notnull(x) /\ x >= t

\* x == v on a float column: False for NaN
ColEq(x, v) == notnull(x) /\ x = v

CsvColumns ==
    {"CensusTract", "County", "POP2010", "Urban", "Rural",
     "lapophalf", "lapop10", "lalowihalf", "lalowi10"}

ShpColumns == {"CTIDFP00", "geometry"}

----------------------------------------------------------------------------
(* load_in_data *)

\* the merged row of a geometry row and a CSV row with the same identifier
JoinRow(l, r) ==
    [c \in ShpColumns \cup CsvColumns |-> IF c \in ShpColumns THEN l[c] ELSE r[c]]

\* the merged row of a geometry row without a CSV row
NullRow(l) ==
    [c \in ShpColumns \cup CsvColumns |-> IF c \in ShpColumns THEN l[c] ELSE NaN]

MatchesOf(l, csv) ==
    LET same(r) == r.CensusTract = l.CTIDFP00
    IN  SelectSeq(csv, same)

LeftRows(l, csv) ==
    LET m == MatchesOf(l, csv)
    IN  IF m = <<>> THEN <<NullRow(l)>>
        ELSE [j \in 1..Len(m) |-> JoinRow(l, m[j])]

\* mutant: the rows of an inner join, which drops an unmatched geometry row
InnerRows(l, csv) ==
    LET m == MatchesOf(l, csv)
    IN  [j \in 1..Len(m) |-> JoinRow(l, m[j])]

RECURSIVE MergeInner(_, _)
MergeInner(shp, csv) ==
    IF shp = <<>> THEN <<>>
    ELSE InnerRows(Head(shp), csv) \o MergeInner(Tail(shp), csv)

RECURSIVE MergeLeft(_, _)
MergeLeft(shp, csv) ==
    IF shp = <<>> THEN <<>>
    ELSE LeftRows(Head(shp), csv) \o MergeLeft(Tail(shp), csv)

\* mutant: how="inner"
load_in_data_inner(shp, csv) == MergeInner(shp, csv)

\* shp_file.merge(csv_file, left_on="CTIDFP00", right_on="CensusTract", how="left")
load_in_data(shp, csv) == MergeLeft(shp, csv)

----------------------------------------------------------------------------
(* percentage_food_data *)

\* Series.count(): the number of non-null values of a column
count(t, col) == Cardinality({i \in DOMAIN t : notnull(t[i][col])})

\* float(count / count) * 100; 0/0 on numpy integers is NaN
percentage_food_data(t) ==
    LET q == Div(count(t, "CensusTract"), count(t, "CTIDFP00"))
    IN  <<q[1] * 100, q[2]>>

----------------------------------------------------------------------------
(* dissolve(by="County", aggfunc="sum") *)

\* the groups of a groupby on County: rows with a null County have no group
Groups(t) == {t[i].County : i \in DOMAIN t} \ {NaN}

\* the sum of column col over the rows of county c; a null value is skipped
RECURSIVE GroupSum(_, _, _)
GroupSum(t, c, col) ==
    IF t = <<>> THEN 0
    ELSE (IF Head(t).County = c /\ notnull(Head(t)[col]) THEN Head(t)[col] ELSE 0)
         + GroupSum(Tail(t), c, col)

\* the union of the geometries of the rows of county c
GroupGeometry(t, c) ==
    UNION {t[i].geometry : i \in {j \in DOMAIN t : t[j].County = c}}

\* one row per county, indexed by County: numeric columns summed, geometries
\* unioned
dissolve(t, cols) ==
    [c \in Groups(t) |->
        [col \in cols \cup {"geometry"} |->
            IF col = "geometry" THEN GroupGeometry(t, c) ELSE GroupSum(t, c, col)]]

NumericColumns == CsvColumns \ {"County"}

\* state_data.dissolve(by="County", aggfunc="sum") of plot_population_county_map
county_table(t) == dissolve(t, NumericColumns)

AccessColumns == {"lapophalf", "lapop10", "lalowihalf", "lalowi10"}

RatioColumns ==
    {"lapophalf_ratio", "lapop10_ratio", "lalowihalf_ratio", "lalowi10_ratio"}

\* the access count column a ratio column is computed from
RatioOf(rc) ==
    CASE rc = "lapophalf_ratio" -> "lapophalf"
      [] rc = "lapop10_ratio" -> "lapop10"
      [] rc = "lalowihalf_ratio" -> "lalowihalf"
      [] rc = "lalowi10_ratio" -> "lalowi10"

\* mutant: every ratio column computed from lapophalf
county_ratio_one_column(row, rc) == Div(row["lapophalf"], row["POP2010"])

\* ratio_data[rc] = ratio_data[count column] / ratio_data["POP2010"], on the
\* dissolved row
county_ratio(row, rc) == Div(row[RatioOf(rc)], row["POP2010"])

\* the dissolved table of the access columns with its four ratio columns
ratio_table(t) ==
    LET d == dissolve(t, AccessColumns \cup {"POP2010"})
    IN  [c \in DOMAIN d |->
            [col \in DOMAIN d[c] \cup RatioColumns |->
                IF col \in RatioColumns THEN county_ratio(d[c], col) ELSE d[c][col]]]

----------------------------------------------------------------------------
(* the four-panel figure of plot_food_access_by_county *)

Axes == {"ax1", "ax2", "ax3", "ax4"}

\* plt.subplots(2, 2): four empty axes
subplots == [a \in Axes |-> [background |-> FALSE, column |-> "", title |-> ""]]

Stmt(op, ax, arg) == [op |-> op, ax |-> ax, arg |-> arg]

\* mutant: each title set on the axis plotted just before it
food_access_titles_follow_plots ==
    << Stmt("background", "ax1", ""),
       Stmt("plot", "ax1", "lapophalf_ratio"),
       Stmt("set_title", "ax1", "Low Access: Half"),
       Stmt("background", "ax3", ""),
       Stmt("plot", "ax3", "lapop10_ratio"),
       Stmt("set_title", "ax3", "Low Access + Low Income: Half"),
       Stmt("background", "ax2", ""),
       Stmt("plot", "ax2", "lalowihalf_ratio"),
       Stmt("set_title", "ax2", "Low Access: 10"),
       Stmt("background", "ax4", ""),
       Stmt("plot", "ax4", "lalowi10_ratio"),
       Stmt("set_title", "ax4", "Low Access + Low Income: 10") >>

\* the plotting statements in source order
food_access_statements ==
    << Stmt("background", "ax1", ""),
       Stmt("plot", "ax1", "lapophalf_ratio"),
       Stmt("set_title", "ax1", "Low Access: Half"),
       Stmt("background", "ax3", ""),
       Stmt("plot", "ax3", "lapop10_ratio"),
       Stmt("set_title", "ax2", "Low Access + Low Income: Half"),
       Stmt("background", "ax2", ""),
       Stmt("plot", "ax2", "lalowihalf_ratio"),
       Stmt("set_title", "ax3", "Low Access: 10"),
       Stmt("background", "ax4", ""),
       Stmt("plot", "ax4", "lalowi10_ratio"),
       Stmt("set_title", "ax4", "Low Access + Low Income: 10") >>

\* the effect of one statement on the figure
Draw(fig, s) ==
    CASE s.op = "background" -> [fig EXCEPT ![s.ax].background = TRUE]
      [] s.op = "plot" -> [fig EXCEPT ![s.ax].column = s.arg]
      [] s.op = "set_title" -> [fig EXCEPT ![s.ax].title = s.arg]

RECURSIVE Render(_, _)
Render(fig, stmts) ==
    IF stmts = <<>> THEN fig
    ELSE Render(Draw(fig, Head(stmts)), Tail(stmts))

----------------------------------------------------------------------------
(* plot_low_access_tracts *)

UrbanCount == 500

UrbanRatioPct == 33

RuralCount == 500

RuralRatioPct == 33

urban_area(r) ==
    ColEq(r.Urban, 1)
    /\ (CountGE(r.lapophalf, UrbanCount)
        \/ RatioGE(Div(r.lapophalf, r.POP2010), UrbanRatioPct))

\* mutant: the rural rule reads the half-mile count
rural_area_half_mile(r) ==
    ColEq(r.Rural, 1)
    /\ (CountGE(r.lapophalf, RuralCount)
        \/ RatioGE(Div(r.lapophalf, r.POP2010), RuralRatioPct))

rural_area(r) ==
    ColEq(r.Rural, 1)
    /\ (CountGE(r.lapop10, RuralCount)
        \/ RatioGE(Div(r.lapop10, r.POP2010), RuralRatioPct))

\* the value of the low_access column of a row
low_access_value(r) == urban_area(r) \/ rural_area(r)

\* state_data["low_access"] = urban_area | rural_area: the table gains a column
with_low_access(t) ==
    [i \in DOMAIN t |->
        [c \in DOMAIN t[i] \cup {"low_access"} |->
            IF c = "low_access" THEN low_access_value(t[i]) ELSE t[i][c]]]

\* mutant: no filter on POP2010
food_access_rows_unfiltered(t) == t

\* state_data[state_data["POP2010"].notnull()]
food_access_rows(t) ==
    LET known(r) == notnull(r.POP2010)
    IN  SelectSeq(t, known)

\* food_access[food_access["low_access"]]
low_access_rows(fa) ==
    LET flagged(r) == r.low_access
    IN  SelectSeq(fa, flagged)

----------------------------------------------------------------------------
(* main *)

\* mutant: the county map rendered before the tract population map
main_county_first ==
    << "load_in_data", "percentage_food_data", "plot_map",
       "plot_population_county_map", "plot_population_map",
       "plot_food_access_by_county", "plot_low_access_tracts" >>

\* the statements of main in source order
main ==
    << "load_in_data", "percentage_food_data", "plot_map", "plot_population_map",
       "plot_population_county_map", "plot_food_access_by_county",
       "plot_low_access_tracts" >>

\* statement s is the one to run next
At(s) == status = "running" /\ pc \in DOMAIN main /\ main[pc] = s

\* control moves to the next statement; main returns after the last one
Advance ==
    /\ pc' = pc + 1
    /\ status' = IF pc + 1 \in DOMAIN main THEN "running" ELSE "done"

LoadInData ==
    /\ At("load_in_data")
    /\ state_data' = load_in_data(shp_file, csv_file)
    /\ Advance
    /\ UNCHANGED <<shp_file, csv_file, stdout, files, county, ratio_data, axes,
                   food_access, low_access>>

PrintPercentage ==
    /\ At("percentage_food_data")
    /\ stdout' = Append(stdout, percentage_food_data(state_data))
    /\ Advance
    /\ UNCHANGED <<shp_file, csv_file, state_data, files, county, ratio_data, axes,
                   food_access, low_access>>

PlotMap ==
    /\ At("plot_map")
    /\ files' = Append(files, "map.png")
    /\ Advance
    /\ UNCHANGED <<shp_file, csv_file, state_data, stdout, county, ratio_data, axes,
                   food_access, low_access>>

PlotPopulationMap ==
    /\ At("plot_population_map")
    /\ files' = Append(files, "population_map.png")
    /\ Advance
    /\ UNCHANGED <<shp_file, csv_file, state_data, stdout, county, ratio_data, axes,
                   food_access, low_access>>

PlotPopulationCountyMap ==
    /\ At("plot_population_county_map")
    /\ county' = county_table(state_data)
    /\ files' = Append(files, "county_population_map.png")
    /\ Advance
    /\ UNCHANGED <<shp_file, csv_file, state_data, stdout, ratio_data, axes,
                   food_access, low_access>>

PlotFoodAccessByCounty ==
    /\ At("plot_food_access_by_county")
    /\ ratio_data' = ratio_table(state_data)
    /\ axes' = Render(subplots, food_access_statements)
    /\ files' = Append(files, "county_food_access.png")
    /\ Advance
    /\ UNCHANGED <<shp_file, csv_file, state_data, stdout, county,
                   food_access, low_access>>

PlotLowAccessTracts ==
    /\ At("plot_low_access_tracts")
    /\ state_data' = with_low_access(state_data)
    /\ food_access' = food_access_rows(with_low_access(state_data))
    /\ low_access' = low_access_rows(food_access_rows(with_low_access(state_data)))
    /\ files' = Append(files, "low_access.png")
    /\ Advance
    /\ UNCHANGED <<shp_file, csv_file, stdout, county, ratio_data, axes>>

\* the statement to run next raises: nothing catches it, the program ends
\* and the statement writes no file.  What a function computed in its locals
\* before it raised is lost with its frame.
Fail ==
    /\ status = "running"
    /\ status' = "failed"
    /\ UNCHANGED <<shp_file, csv_file, state_data, pc, stdout, files, county,
                   ratio_data, axes, food_access, low_access>>

\* plot_low_access_tracts raises after it assigned the column low_access on
\* the caller's table (in its plotting or in savefig): the program ends, no
\* file is written, and the table keeps the new column
FailAfterLowAccessAssigned ==
    /\ At("plot_low_access_tracts")
    /\ state_data' = with_low_access(state_data)
    /\ status' = "failed"
    /\ UNCHANGED <<shp_file, csv_file, pc, stdout, files, county,
                   ratio_data, axes, food_access, low_access>>

Next ==
    \/ LoadInData
    \/ PrintPercentage
    \/ PlotMap
    \/ PlotPopulationMap
    \/ PlotPopulationCountyMap
    \/ PlotFoodAccessByCounty
    \/ PlotLowAccessTracts
    \/ Fail
    \/ FailAfterLowAccessAssigned

----------------------------------------------------------------------------
(* Input files *)

MaxTracts == 2

MaxCsvRows == 2

MaxCountyTracts == 2

Tract(k, g) == [CTIDFP00 |-> k, geometry |-> {g}]

CsvRow(k, c, p, u, r, a) ==
    [CensusTract |-> k, County |-> c, POP2010 |-> p, Urban |-> u, Rural |-> r,
     lapophalf |-> a[1], lapop10 |-> a[2], lalowihalf |-> a[3], lalowi10 |-> a[4]]

Tables(rows, n) == UNION {[1..m -> rows] : m \in 0..n}

TractIds == {1, 2}

\* shapefiles of up to MaxTracts tracts; each tract has its own polygon
JoinShapefiles ==
    {[i \in DOMAIN f |-> Tract(f[i], i)] : f \in Tables(TractIds, MaxTracts)}

\* CSV files of up to MaxCsvRows rows; identifiers may repeat or be absent from
\* the shapefile
JoinCsvFiles ==
    Tables({CsvRow(k, 1, p, 1, 0, <<a, 0, 0, 0>>) :
                k \in TractIds, p \in {NaN, 1000}, a \in {100, 600}},
           MaxCsvRows)

PopValues == {NaN, 0, 1000, 2000}

FlagValues == {NaN, 0, 1}

CountValues == {NaN, 0, 100, 329, 330, 499, 500, 600}

\* one tract, with or without its CSV row
ClassifierCsvFiles ==
    {<<>>} \cup
    {<<CsvRow(1, 1, p, u, r, <<a, b, 0, 0>>)>> :
        p \in PopValues, u \in FlagValues, r \in FlagValues,
        a \in CountValues, b \in CountValues}

CountyValues == {NaN, 1, 2}

AccessProfiles == {<<0, 0, 0, 0>>, <<40, 10, 20, 5>>, <<60, 30, 10, 0>>}

CountyPopValues == {NaN, 0, 100, 200}

CountyCsvRows(k) ==
    {CsvRow(k, c, p, 1, 0, a) :
        c \in CountyValues, p \in CountyPopValues, a \in AccessProfiles}

\* MaxCountyTracts tracts; the first rows of them have a CSV row
CountyCsvFiles ==
    UNION {{f \in [1..m -> UNION {CountyCsvRows(k) : k \in 1..m}] :
                \A i \in 1..m : f[i].CensusTract = i} : m \in 0..MaxCountyTracts}

InitWith(shps, csvs) ==
    /\ shp_file \in shps
    /\ csv_file \in csvs
    /\ state_data = <<>>
    /\ pc = 1
    /\ status = "running"
    /\ stdout = <<>>
    /\ files = <<>>
    /\ county = <<>>
    /\ ratio_data = <<>>
    /\ axes = subplots
    /\ food_access = <<>>
    /\ low_access = <<>>

Init == InitWith(JoinShapefiles, JoinCsvFiles)

InitClassifier == InitWith({<<Tract(1, 1)>>}, ClassifierCsvFiles)

InitCounty ==
    InitWith({[i \in 1..MaxCountyTracts |-> Tract(i, i)]}, CountyCsvFiles)

Spec == Init /\ [][Next]_vars

SpecClassifier == InitClassifier /\ [][Next]_vars

SpecCounty == InitCounty /\ [][Next]_vars

----------------------------------------------------------------------------
(* Properties *)

\* statement s of main has completed
Ran(s) == \E i \in DOMAIN main : main[i] = s /\ pc > i

Range(t) == {t[i] : i \in DOMAIN t}

\* the sum of column col of table t over the rows indexed by I
RECURSIVE SumOver(_, _, _)
SumOver(t, I, col) ==
    IF I = {} THEN 0
    ELSE LET i == CHOOSE x \in I : TRUE
         IN  t[i][col] + SumOver(t, I \ {i}, col)

\* C1: for every row that carries the column low_access (the function wrote
\* it, whether or not it went on to save its figure), with flags in {0,1},
\* non-null counts and a positive population, low_access is (Urban = 1 and (lapophalf >= 500 or
\* lapophalf/POP2010 >= 0.33)) or (Rural = 1 and (lapop10 >= 500 or
\* lapop10/POP2010 >= 0.33)); a row with both flags 0 is never low_access and a
\* rural row with lapop10 >= 500 always is.
C1_Classification ==
        \A i \in DOMAIN state_data :
            LET r == state_data[i]
            IN  (/\ "low_access" \in DOMAIN r
                 /\ r.Urban \in {0, 1}
                 /\ r.Rural \in {0, 1}
                 /\ r.lapophalf >= 0
                 /\ r.lapop10 >= 0
                 /\ r.POP2010 > 0)
                => /\ r.low_access <=>
                        \/ r.Urban = 1 /\ (r.lapophalf >= 500
                                           \/ 100 * r.lapophalf >= 33 * r.POP2010)
                        \/ r.Rural = 1 /\ (r.lapop10 >= 500
                                           \/ 100 * r.lapop10 >= 33 * r.POP2010)
                   /\ (r.Urban = 0 /\ r.Rural = 0 => ~r.low_access)
                   /\ (r.Rural = 1 /\ r.lapop10 >= 500 => r.low_access)

\* a rural tract of population 2000 classified low access by its count alone,
\* its ratio being below 0.33
C1_Witness ==
    /\ Ran("plot_low_access_tracts")
    /\ \E i \in DOMAIN state_data :
          LET r == state_data[i]
          IN  /\ r.Urban = 0 /\ r.Rural = 1
              /\ r.POP2010 = 2000 /\ r.lapop10 = 500 /\ r.lapophalf = 0
              /\ r.low_access

\* C2: for every row whose POP2010 is null or zero the ratio clause counts as
\* not satisfied: the row is low_access only if its flag is 1 and its count is
\* at least 500.
C2_RatioClauseOffWithoutPopulation ==
        \A i \in DOMAIN state_data :
            LET r == state_data[i]
            IN  ("low_access" \in DOMAIN r /\ (r.POP2010 = NaN \/ r.POP2010 = 0))
                => (r.low_access <=>
                        \/ r.Urban = 1 /\ r.lapophalf >= 500
                        \/ r.Rural = 1 /\ r.lapop10 >= 500)

\* C3: a row with a null POP2010 is in neither the food_access layer nor the
\* low_access layer, whatever its low_access value; the low_access layer is
\* part of the food_access layer, which is part of the table.
C3_NullPopulationExcluded ==
    Ran("plot_low_access_tracts") =>
        /\ \A r \in Range(state_data) :
              r.POP2010 = NaN => r \notin Range(food_access) /\ r \notin Range(low_access)
        /\ Range(low_access) \subseteq Range(food_access)
        /\ Range(food_access) \subseteq Range(state_data)
        /\ \A r \in Range(state_data) :
              r \in Range(food_access) <=> r.POP2010 # NaN
        /\ \A r \in Range(state_data) :
              r \in Range(low_access) <=> (r.POP2010 # NaN /\ r.low_access)

\* a table with a low_access row of null population, left out of both layers,
\* beside a row that is in both
C3_Witness ==
    /\ Ran("plot_low_access_tracts")
    /\ \E r \in Range(state_data) : r.POP2010 = NaN /\ r.low_access
    /\ low_access # <<>>
    /\ Len(food_access) < Len(state_data)

\* the CSV columns of a merged row
CsvPart(r) == [c \in CsvColumns |-> r[c]]

\* geometry row i of the shapefile has a CSV row of the same identifier
Matched(i) == \E k \in DOMAIN csv_file : csv_file[k].CensusTract = shp_file[i].CTIDFP00

\* no two rows of the table have the same value in column col
UniqueKeys(t, col) == \A i, j \in DOMAIN t : t[i][col] = t[j][col] => i = j

\* the merged rows that carry the polygon of geometry row i
RowsOfTract(i) == {j \in DOMAIN state_data : state_data[j].geometry = shp_file[i].geometry}

\* C4: the merged table is the left outer join on CTIDFP00 = CensusTract: every
\* geometry row appears, an unmatched one exactly once with all CSV fields
\* null, a matched one with the fields of each matching CSV row, no merged row
\* lacks a geometry row, and with unique CensusTract values the merged table
\* has exactly one row per geometry row.
C4_LeftJoin ==
    Ran("load_in_data") =>
        /\ \A i \in DOMAIN shp_file :
              /\ RowsOfTract(i) # {}
              /\ \A j \in RowsOfTract(i) : state_data[j].CTIDFP00 = shp_file[i].CTIDFP00
        /\ \A i \in DOMAIN shp_file :
              ~Matched(i) =>
                  /\ Cardinality(RowsOfTract(i)) = 1
                  /\ \A j \in RowsOfTract(i) : \A c \in CsvColumns : state_data[j][c] = NaN
        /\ \A i \in DOMAIN shp_file : \A k \in DOMAIN csv_file :
              csv_file[k].CensusTract = shp_file[i].CTIDFP00 =>
                  \E j \in RowsOfTract(i) : CsvPart(state_data[j]) = csv_file[k]
        /\ \A j \in DOMAIN state_data :
              \E i \in DOMAIN shp_file :
                  /\ j \in RowsOfTract(i)
                  /\ \/ ~Matched(i)
                     \/ /\ state_data[j].CensusTract = shp_file[i].CTIDFP00
                        /\ CsvPart(state_data[j]) \in Range(csv_file)
        /\ UniqueKeys(csv_file, "CensusTract") =>
              /\ Len(state_data) = Len(shp_file)
              /\ \A i \in DOMAIN shp_file : RowsOfTract(i) = {i}

\* two tracts, the first matched by two CSV rows and the second by none: the
\* merged table has three rows, the last with null CSV fields
C4_Witness ==
    /\ Ran("load_in_data")
    /\ Len(shp_file) = 2 /\ Len(csv_file) = 2
    /\ Matched(1) /\ ~Matched(2)
    /\ Len(state_data) = 3
    /\ state_data[3].CensusTract = NaN

\* C5: the printed match rate lies in [0, 100] for every merged table
\* of a left join with unique keys on both sides.
C5_AlwaysInRange ==
    (/\ Ran("percentage_food_data")
     /\ UniqueKeys(shp_file, "CTIDFP00")
     /\ UniqueKeys(csv_file, "CensusTract"))
    => /\ stdout[1][2] > 0
       /\ 0 <= stdout[1][1]
       /\ stdout[1][1] <= 100 * stdout[1][2]

\* What the code does instead: the printed value is 100 * (rows with a non-null
\* CensusTract) / (rows with a non-null CTIDFP00); it is NaN for a table
\* without rows, and for a table with at least one row produced from unique
\* keys on both sides it is the share of matched tracts and lies in [0, 100].
MatchRateOfRows ==
    Ran("percentage_food_data") =>
        LET v == stdout[1]
            matched == {j \in DOMAIN state_data : state_data[j].CensusTract # NaN}
            keyed == {j \in DOMAIN state_data : state_data[j].CTIDFP00 # NaN}
        IN  /\ Len(stdout) = 1
            /\ keyed = {} => v = NaNRatio
            /\ keyed # {} =>
                  /\ v[2] > 0
                  /\ v[1] * Cardinality(keyed) = 100 * Cardinality(matched) * v[2]
            /\ (/\ shp_file # <<>>
                /\ UniqueKeys(shp_file, "CTIDFP00")
                /\ UniqueKeys(csv_file, "CensusTract"))
               => /\ v[2] > 0
                  /\ 0 <= v[1]
                  /\ v[1] <= 100 * v[2]
                  /\ v[1] * Len(shp_file)
                       = 100 * Cardinality({i \in DOMAIN shp_file : Matched(i)}) * v[2]

\* the merged rows of county c
TractsOf(c) == {j \in DOMAIN state_data : state_data[j].County = c}

\* the merged rows with a non-null value in column col
Known(col) == {j \in DOMAIN state_data : state_data[j][col] # NaN}

\* C6: after the dissolve by County, the sum of POP2010 over the county rows
\* equals the sum of POP2010 over the tract rows with a non-null POP2010, and
\* each county row's POP2010 is the sum over exactly the tracts of that county.
C6_PopulationPreserved ==
    Ran("plot_population_county_map") =>
        /\ SumOver(county, DOMAIN county, "POP2010")
             = SumOver(state_data, Known("POP2010"), "POP2010")
        /\ \A c \in DOMAIN county :
              county[c].POP2010
                = SumOver(state_data, TractsOf(c) \cap Known("POP2010"), "POP2010")

\* What the code does instead: the county rows are the non-null County values,
\* each sums exactly its own tracts, and the total over the county rows is the
\* total over the tract rows with a non-null POP2010 and a non-null County; the
\* same holds of the table plot_food_access_by_county dissolves.
CountySumsOfGroupedTracts ==
    /\ Ran("plot_population_county_map") =>
          /\ DOMAIN county = {state_data[j].County : j \in Known("County")}
          /\ SumOver(county, DOMAIN county, "POP2010")
               = SumOver(state_data, Known("POP2010") \cap Known("County"), "POP2010")
          /\ \A c \in DOMAIN county :
                /\ county[c].POP2010
                     = SumOver(state_data, TractsOf(c) \cap Known("POP2010"), "POP2010")
                /\ county[c].geometry = UNION {state_data[j].geometry : j \in TractsOf(c)}
    /\ Ran("plot_food_access_by_county") =>
          \A c \in DOMAIN ratio_data :
              ratio_data[c].POP2010
                = SumOver(state_data, TractsOf(c) \cap Known("POP2010"), "POP2010")

\* county c has exactly two tracts, of positive populations
TwoTracts(c, i, j) ==
    /\ TractsOf(c) = {i, j} /\ i # j
    /\ state_data[i].POP2010 > 0 /\ state_data[j].POP2010 > 0

\* the county ratio r equals the mean of the tract ratios a1/p1 and a2/p2
IsMeanOf(r, a1, p1, a2, p2) ==
    r[2] > 0 /\ r[1] * (2 * p1 * p2) = (a1 * p2 + a2 * p1) * r[2]

\* C7: each county ratio column is the summed access count over the summed
\* POP2010, and for a county of two tracts with unequal populations it differs
\* from the mean of the two tract ratios.
C7_DiffersFromMean ==
    Ran("plot_food_access_by_county") =>
        \A c \in DOMAIN ratio_data : \A rc \in RatioColumns : \A i, j \in TractsOf(c) :
            (TwoTracts(c, i, j) /\ state_data[i].POP2010 # state_data[j].POP2010)
            => ~IsMeanOf(ratio_data[c][rc],
                         state_data[i][RatioOf(rc)], state_data[i].POP2010,
                         state_data[j][RatioOf(rc)], state_data[j].POP2010)

\* C7 amended: each county ratio column is the summed access count over the
\* summed POP2010 of the county's tracts (inf or NaN when that sum is 0); for a
\* county of two tracts with unequal positive populations whose tract ratios
\* differ it is not the mean of the two tract ratios, and when the two tract
\* ratios are equal it is their common value.
C7_RatioOfSums ==
    Ran("plot_food_access_by_county") =>
        \A c \in DOMAIN ratio_data : \A rc \in RatioColumns :
            LET r == ratio_data[c][rc]
                A == SumOver(state_data, TractsOf(c) \cap Known(RatioOf(rc)), RatioOf(rc))
                P == SumOver(state_data, TractsOf(c) \cap Known("POP2010"), "POP2010")
            IN  /\ P > 0 => r[2] > 0 /\ r[1] * P = A * r[2]
                /\ P = 0 => r = (IF A > 0 THEN InfRatio ELSE NaNRatio)
                /\ \A i, j \in TractsOf(c) :
                      LET a1 == state_data[i][RatioOf(rc)]
                          p1 == state_data[i].POP2010
                          a2 == state_data[j][RatioOf(rc)]
                          p2 == state_data[j].POP2010
                      IN  TwoTracts(c, i, j) =>
                            /\ (p1 # p2 /\ a1 * p2 # a2 * p1)
                                  => ~IsMeanOf(r, a1, p1, a2, p2)
                            /\ a1 * p2 = a2 * p1
                                  => IsMeanOf(r, a1, p1, a2, p2) /\ r[1] * p1 = a1 * r[2]

\* a county of two tracts of populations 100 and 200 with 40 and 60 people
\* beyond half a mile: tract ratios 0.4 and 0.3, county ratio 100/300
C7_Witness ==
    /\ Ran("plot_food_access_by_county")
    /\ \E c \in DOMAIN ratio_data :
          /\ Cardinality(TractsOf(c)) = 2
          /\ ratio_data[c].POP2010 = 300
          /\ ratio_data[c].lapophalf = 100
          /\ ratio_data[c].lapophalf_ratio = <<100, 300>>
          /\ ratio_data[c].lalowi10_ratio = <<5, 300>>

\* C8: every render is read-only over the merged table: once loaded, the table
\* has the columns and values load_in_data returned.
C8_RendersReadOnly ==
    Ran("load_in_data") => state_data = load_in_data(shp_file, csv_file)

\* What the code does instead: plot_low_access_tracts adds the column
\* low_access to the caller's table and leaves the other columns as loaded; the
\* four renders before it change nothing.  The column is there once the
\* function has returned, and also when it raised after assigning it.
OnlyLowAccessAdded ==
    Ran("load_in_data") =>
        LET loaded == load_in_data(shp_file, csv_file)
            base == ShpColumns \cup CsvColumns
        IN  /\ Len(state_data) = Len(loaded)
            /\ \A i \in DOMAIN state_data :
                  /\ [c \in base |-> state_data[i][c]] = loaded[i]
                  /\ DOMAIN state_data[i] \in {base, base \cup {"low_access"}}
                  /\ Ran("plot_low_access_tracts")
                        => DOMAIN state_data[i] = base \cup {"low_access"}
                  /\ DOMAIN state_data[i] # base
                        => \/ Ran("plot_low_access_tracts")
                           \/ /\ status = "failed"
                              /\ pc \in DOMAIN main
                              /\ main[pc] = "plot_low_access_tracts"

OutputOrder ==
    << "map.png", "population_map.png", "county_population_map.png",
       "county_food_access.png", "low_access.png" >>

\* C9: main runs load, print, then the five renders in the fixed order; a
\* failing step ends the program there, so the files written are always a
\* prefix of that order, nothing is rendered before the match rate is printed
\* from the loaded table, and a run that returns has written all five.
C9_SequentialPrefix ==
    /\ Len(files) <= Len(OutputOrder)
    /\ files = SubSeq(OutputOrder, 1, Len(files))
    /\ Len(stdout) <= 1
    /\ files # <<>> => Len(stdout) = 1
    /\ stdout # <<>> => Ran("load_in_data") /\ Len(state_data) >= Len(shp_file)
    /\ status = "done" => files = OutputOrder /\ Len(stdout) = 1
    /\ status # "running" => ~ENABLED Next

\* a run that failed in the fourth render, with exactly the first three files
C9_Witness ==
    /\ status = "failed"
    /\ files = SubSeq(OutputOrder, 1, 3)
    /\ Len(stdout) = 1

\* the measure a panel title names, as the ratio column of that measure
TitleMeasure(title) ==
    CASE title = "Low Access: Half" -> "lapophalf_ratio"
      [] title = "Low Access: 10" -> "lapop10_ratio"
      [] title = "Low Access + Low Income: Half" -> "lalowihalf_ratio"
      [] title = "Low Access + Low Income: 10" -> "lalowi10_ratio"
      [] OTHER -> "none"

\* C10: when the four-panel figure is saved, at least one axis carries a title
\* naming another measure than the ratio column drawn on it.
C10_SomeTitleMismatched ==
    Ran("plot_food_access_by_county") =>
        \E a \in Axes : TitleMeasure(axes[a].title) # axes[a].column

\* C10 amended: the titles are set out of step with the plot calls, but when
\* the figure is saved every axis carries the title naming the ratio column
\* drawn on it, over a background layer, and the four axes show the four
\* ratio columns.
C10_TitlesMatchColumns ==
    Ran("plot_food_access_by_county") =>
        /\ \A a \in Axes :
              /\ axes[a].background
              /\ axes[a].column \in RatioColumns
              /\ TitleMeasure(axes[a].title) = axes[a].column
        /\ {axes[a].column : a \in Axes} = RatioColumns

\* the saved figure: the lower-left axis shows lapop10_ratio under "Low Access:
\* 10", the upper-right one lalowihalf_ratio under its own title
C10_Witness ==
    /\ Ran("plot_food_access_by_county")
    /\ axes["ax3"].column = "lapop10_ratio" /\ axes["ax3"].title = "Low Access: 10"
    /\ axes["ax2"].column = "lalowihalf_ratio"
    /\ axes["ax2"].title = "Low Access + Low Income: Half"

====
